---- MODULE Spec2Model ----
(***************************************************************************)
(* Model of the portfolio crate (src/src/lib.rs): one call of              *)
(* get_latest_price_for_equity or summary_for_equity, from the lazy        *)
(* initialisation of the API key, through the HTTP request, the status     *)
(* check, the JSON deserialisation of the body, the date filter and the    *)
(* four reductions, to the value returned, the ApiError returned or the    *)
(* panic raised.                                                           *)
(***************************************************************************)
EXTENDS Integers, Sequences, FiniteSets, TLC

VARIABLES
    env_key,      \* is VANTAGE_API_KEY set in the process environment
    op,           \* the public operation called: "none" | "latest" | "summary"
    time_period,  \* the TimePeriod argument of summary_for_equity
    today,        \* the local `today` of summary_for_equity (a day number)
    pc,           \* position inside the call
    requests,     \* number of HTTP requests sent
    status,       \* HTTP status of the response received (0: none)
    body,         \* the response body handed to resp.json()
    time_series,  \* the deserialised "Time Series (Daily)" map
    filtered,     \* the map collected by the date filter (lib.rs:163)
    price,        \* Ok value of get_latest_price_for_equity
    summary,      \* the EquitySummary under construction
    outcome,      \* "running" | "ok" | "err" | "panic"
    at            \* the step that ended the call

vars == <<env_key, op, time_period, today, pc, requests, status, body,
          time_series, filtered, price, summary, outcome, at>>

----------------------------------------------------------------------------
(* Bounds of the model *)

\* largest number of daily records in a response body
MaxEntries == 2

\* calendar dates (day numbers) a response may carry
Dates == {0, 1, 336}

\* values of `today`
Todays == {31, 366}

\* HTTP statuses the upstream may answer with
Statuses == {200, 304, 404, 503}

----------------------------------------------------------------------------
(* f64 *)

F(n) == [k |-> "num", v |-> n]
NaN == [k |-> "nan", v |-> 0]
\* the slot of a struct field not yet evaluated
Unset == [k |-> "unset", v |-> 0]

\* IEEE comparisons: every comparison with NaN is false
Gt(a, b) == a.k = "num" /\ b.k = "num" /\ a.v > b.v
Lt(a, b) == a.k = "num" /\ b.k = "num" /\ a.v < b.v
Eq(a, b) == a.k = "num" /\ b.k = "num" /\ a.v = b.v

\* a comparator that takes incomparable values as equal
f64_ord_nan_equal(a, b) ==
    IF Gt(a, b) THEN "Greater"
    ELSE IF Lt(a, b) THEN "Less"
    ELSE "Equal"

\* lib.rs:196-206
f64_ord_panic(a, b) ==
    IF Gt(a, b) THEN "Greater"
    ELSE IF Lt(a, b) THEN "Less"
    ELSE IF Eq(a, b) THEN "Equal"
    ELSE "panic"

----------------------------------------------------------------------------
(* JSON values of the body and their deserialisation *)

Str(s) == [t |-> "str", s |-> s, n |-> 0]
Num(n) == [t |-> "num", s |-> <<>>, n |-> n]
Null == [t |-> "null", s |-> <<>>, n |-> 0]

Fields == {"open", "high", "low", "close", "adjusted_close", "volume",
           "dividend_amount", "split_coefficient"}

DigitChars == {"0", "1", "2", "3", "4", "5", "6", "7", "8", "9"}

DigitValue(c) ==
    CASE c = "0" -> 0 [] c = "1" -> 1 [] c = "2" -> 2 [] c = "3" -> 3
      [] c = "4" -> 4 [] c = "5" -> 5 [] c = "6" -> 6 [] c = "7" -> 7
      [] c = "8" -> 8 [] c = "9" -> 9

RECURSIVE DecimalValue(_)
DecimalValue(s) ==
    IF s = <<>> THEN 0
    ELSE 10 * DecimalValue(SubSeq(s, 1, Len(s) - 1)) + DigitValue(s[Len(s)])

\* a field that does not deserialise
ParseErr == [k |-> "err", v |-> 0]

\* str::parse::<f64>() on the strings of the model: decimal digits or "NaN"
ParseF64(s) ==
    IF s = <<"N", "a", "N">> THEN NaN
    ELSE IF s # <<>> /\ \A i \in 1..Len(s) : s[i] \in DigitChars
         THEN F(DecimalValue(s))
    ELSE ParseErr

\* deserialize_number_from_string: a JSON string is parsed, a JSON number is
\* taken as it is, anything else is an error
deserialize_number_from_string(tok) ==
    CASE tok.t = "str" -> ParseF64(tok.s)
      [] tok.t = "num" -> F(tok.n)
      [] OTHER -> ParseErr

----------------------------------------------------------------------------
(* Response bodies *)

\* a daily record whose eight fields are string-encoded numbers
Day(c, h, l) ==
    [f \in Fields |->
        CASE f = "close" -> Str(c)
          [] f = "high" -> Str(h)
          [] f = "low" -> Str(l)
          [] f = "volume" -> Str(<<"1", "2", "3", "4", "5">>)
          [] f = "dividend_amount" -> Str(<<"0">>)
          [] OTHER -> Str(<<"1">>)]

CloseStrs == {<<"1">>, <<"2">>}
HighStrs == {<<"2">>, <<"3">>}
LowStrs == {<<"1">>, <<"2">>}
NaNStr == <<"N", "a", "N">>

BaseDay == Day(<<"1">>, <<"2">>, <<"1">>)

\* the daily records a body may carry: well-formed ones, two whose high or
\* low reads "NaN", one per field with a string that is no number in that
\* field, one with a JSON number, one with a null
RawDays ==
    {Day(c, h, l) : c \in CloseStrs, h \in HighStrs, l \in LowStrs}
    \cup {Day(<<"1">>, NaNStr, <<"1">>), Day(<<"1">>, <<"3">>, NaNStr)}
    \cup {[BaseDay EXCEPT ![f] = Str(<<"x">>)] : f \in Fields}
    \cup {[BaseDay EXCEPT !["volume"] = Num(12345)],
          [BaseDay EXCEPT !["close"] = Null]}

DateSets == {S \in SUBSET Dates : Cardinality(S) <= MaxEntries}

Body(m, t, ts) == [has_meta |-> m, has_ts |-> t, ts |-> ts]

NoBody == Body(FALSE, FALSE, <<>>)

Bodies ==
    {Body(TRUE, FALSE, <<>>), Body(FALSE, TRUE, <<>>)}
    \cup {Body(TRUE, TRUE, ts) : ts \in UNION {[S -> RawDays] : S \in DateSets}}

\* TimeSeriesDay: every field goes through deserialize_number_from_string
TimeSeriesDay(raw) == [f \in Fields |-> deserialize_number_from_string(raw[f])]

DayOk(day) == \A f \in Fields : day[f] # ParseErr

\* a response check that lets a record through whatever its fields hold
ResponseOk_lenient(b) == b.has_meta /\ b.has_ts

\* TimeSeriesDailyResponse: both fields are required, every record must
\* deserialise
ResponseOk(b) ==
    /\ b.has_meta
    /\ b.has_ts
    /\ \A d \in DOMAIN b.ts : DayOk(TimeSeriesDay(b.ts[d]))

TimeSeriesDailyResponse(b) == [d \in DOMAIN b.ts |-> TimeSeriesDay(b.ts[d])]

----------------------------------------------------------------------------
(* Iteration and the reductions *)

\* the orders in which a HashMap with key set S may be traversed
Orders(S) ==
    {s \in [1..Cardinality(S) -> S] : \A i, j \in DOMAIN s : i # j => s[i] # s[j]}

Front(s) == SubSeq(s, 1, Len(s) - 1)
Last(s) == s[Len(s)]

\* Iterator::max_by_key on a non-empty sequence of dates: the last greatest
RECURSIVE max_by_key(_)
max_by_key(s) ==
    IF Len(s) = 1 THEN s[1]
    ELSE LET x == max_by_key(Front(s))
             y == Last(s)
         IN IF x > y THEN x ELSE y

\* Iterator::min_by_key on a non-empty sequence of dates: the first least
RECURSIVE min_by_key(_)
min_by_key(s) ==
    IF Len(s) = 1 THEN s[1]
    ELSE LET x == min_by_key(Front(s))
             y == Last(s)
         IN IF x > y THEN y ELSE x

Panicked == [k |-> "panic", v |-> 0]

\* Iterator::max_by(f64_ord_panic) on a non-empty sequence of f64
RECURSIVE max_by(_)
max_by(s) ==
    IF Len(s) = 1 THEN s[1]
    ELSE LET x == max_by(Front(s))
             y == Last(s)
         IN IF x = Panicked THEN Panicked
            ELSE CASE f64_ord_panic(x, y) = "panic" -> Panicked
                   [] f64_ord_panic(x, y) = "Greater" -> x
                   [] OTHER -> y

\* Iterator::min_by(f64_ord_panic) on a non-empty sequence of f64
RECURSIVE min_by(_)
min_by(s) ==
    IF Len(s) = 1 THEN s[1]
    ELSE LET x == min_by(Front(s))
             y == Last(s)
         IN IF x = Panicked THEN Panicked
            ELSE CASE f64_ord_panic(x, y) = "panic" -> Panicked
                   [] f64_ord_panic(x, y) = "Greater" -> y
                   [] OTHER -> x

\* .map(|data| data.high) and .map(|data| data.low) over the values
Column(ts, ord, f) == [i \in DOMAIN ord |-> ts[ord[i]][f]]

----------------------------------------------------------------------------
(* The date filter *)

Periods == {"Month", "Year", "AllTime"}

MonthDays == 30
YearDays == 365

\* the filter with the boundary day left out
Keep_exclusive(period, date, now) ==
    CASE period = "Month" -> date + MonthDays > now
      [] period = "Year" -> date + YearDays > now
      [] OTHER -> TRUE

\* the filter with the comparison turned round
Keep_reversed(period, date, now) ==
    CASE period = "Month" -> date + MonthDays <= now
      [] period = "Year" -> date + YearDays <= now
      [] OTHER -> TRUE

Keep(period, date, now) ==
    CASE period = "Month" -> date + MonthDays >= now
      [] period = "Year" -> date + YearDays >= now
      [] OTHER -> TRUE

Retain(ts, period, now) ==
    [d \in {e \in DOMAIN ts : Keep(period, e, now)} |-> ts[d]]

----------------------------------------------------------------------------
(* State machine *)

NoSummary ==
    [latest_price |-> Unset, earliest_price |-> Unset,
     max_price |-> Unset, min_price |-> Unset]

Init ==
    /\ env_key \in BOOLEAN
    /\ op = "none"
    /\ time_period = "none"
    /\ today = 0
    /\ pc = "idle"
    /\ requests = 0
    /\ status = 0
    /\ body = NoBody
    /\ time_series = <<>>
    /\ filtered = <<>>
    /\ price = Unset
    /\ summary = NoSummary
    /\ outcome = "running"
    /\ at = "none"

\* the call ends at step `where` with `how`: "ok", "err" (an ApiError is
\* returned) or "panic"
End(how, where) ==
    /\ pc' = "done"
    /\ outcome' = how
    /\ at' = where

\* lib.rs:130-131: the caller asks for the latest price
get_latest_price_for_equity ==
    /\ pc = "idle"
    /\ op' = "latest"
    /\ pc' = "build"
    /\ UNCHANGED <<env_key, time_period, today, requests, status, body,
                   time_series, filtered, price, summary, outcome, at>>

\* lib.rs:154-161: the caller asks for a summary; `today` is read first
summary_for_equity ==
    /\ pc = "idle"
    /\ \E p \in Periods, t \in Todays :
        /\ time_period' = p
        /\ today' = t
    /\ op' = "summary"
    /\ pc' = "build"
    /\ UNCHANGED <<env_key, requests, status, body, time_series, filtered,
                   price, summary, outcome, at>>

\* a request builder that takes an absent key as the empty string
get_time_series_daily_no_expect ==
    /\ pc = "build"
    /\ pc' = "send"
    /\ UNCHANGED <<env_key, op, time_period, today, requests, status, body,
                   time_series, filtered, price, summary, outcome, at>>

\* lib.rs:116-123 with lib.rs:13-14: building the query dereferences
\* VANTAGE_API_KEY, whose initialiser panics when the variable is not set
get_time_series_daily ==
    /\ pc = "build"
    /\ IF env_key
       THEN /\ pc' = "send"
            /\ UNCHANGED <<outcome, at>>
       ELSE End("panic", "VANTAGE_API_KEY")
    /\ UNCHANGED <<env_key, op, time_period, today, requests, status, body,
                   time_series, filtered, price, summary>>

\* lib.rs:124: one request is sent; it fails in transport or is answered
send ==
    /\ pc = "send"
    /\ requests' = requests + 1
    /\ \/ /\ End("err", "send")
          /\ UNCHANGED status
       \/ /\ \E s \in Statuses : status' = s
          /\ pc' = "status"
          /\ UNCHANGED <<outcome, at>>
    /\ UNCHANGED <<env_key, op, time_period, today, body, time_series,
                   filtered, price, summary>>

\* Response::error_for_status: a client or server error status is an error
IsErrorStatus(s) == s >= 400 /\ s <= 599

\* lib.rs:125
error_for_status ==
    /\ pc = "status"
    /\ IF IsErrorStatus(status)
       THEN End("err", "error_for_status")
       ELSE /\ pc' = "json"
            /\ UNCHANGED <<outcome, at>>
    /\ UNCHANGED <<env_key, op, time_period, today, requests, status, body,
                   time_series, filtered, price, summary>>

\* lib.rs:126 (and the `?` of lib.rs:131 and lib.rs:161): the body is read
\* and deserialised as a TimeSeriesDailyResponse
json ==
    /\ pc = "json"
    /\ \E b \in Bodies :
        /\ body' = b
        /\ IF ResponseOk(b)
           THEN /\ time_series' = TimeSeriesDailyResponse(b)
                /\ pc' = IF op = "latest" THEN "latest" ELSE "filter"
                /\ UNCHANGED <<outcome, at>>
           ELSE /\ End("err", "json")
                /\ UNCHANGED time_series
    /\ UNCHANGED <<env_key, op, time_period, today, requests, status,
                   filtered, price, summary>>

\* the latest price taken from the entry of the least date
latest_close_min ==
    /\ pc = "latest"
    /\ IF DOMAIN time_series = {}
       THEN /\ End("panic", "latest_close")
            /\ UNCHANGED price
       ELSE /\ \E ord \in Orders(DOMAIN time_series) :
                price' = time_series[min_by_key(ord)].close
            /\ End("ok", "latest_close")
    /\ UNCHANGED <<env_key, op, time_period, today, requests, status, body,
                   time_series, filtered, summary>>

\* lib.rs:133-138
latest_close ==
    /\ pc = "latest"
    /\ IF DOMAIN time_series = {}
       THEN /\ End("panic", "latest_close")
            /\ UNCHANGED price
       ELSE /\ \E ord \in Orders(DOMAIN time_series) :
                price' = time_series[max_by_key(ord)].close
            /\ End("ok", "latest_close")
    /\ UNCHANGED <<env_key, op, time_period, today, requests, status, body,
                   time_series, filtered, summary>>

\* lib.rs:163-170
filter ==
    /\ pc = "filter"
    /\ filtered' = Retain(time_series, time_period, today)
    /\ pc' = "latest_price"
    /\ UNCHANGED <<env_key, op, time_period, today, requests, status, body,
                   time_series, price, summary, outcome, at>>

\* lib.rs:173-177
summary_latest_price ==
    /\ pc = "latest_price"
    /\ IF DOMAIN filtered = {}
       THEN /\ End("panic", "latest_price")
            /\ UNCHANGED summary
       ELSE /\ \E ord \in Orders(DOMAIN filtered) :
                summary' = [summary EXCEPT
                              !.latest_price = filtered[max_by_key(ord)].close]
            /\ pc' = "earliest_price"
            /\ UNCHANGED <<outcome, at>>
    /\ UNCHANGED <<env_key, op, time_period, today, requests, status, body,
                   time_series, filtered, price>>

\* lib.rs:178-182
summary_earliest_price ==
    /\ pc = "earliest_price"
    /\ IF DOMAIN filtered = {}
       THEN /\ End("panic", "earliest_price")
            /\ UNCHANGED summary
       ELSE /\ \E ord \in Orders(DOMAIN filtered) :
                summary' = [summary EXCEPT
                              !.earliest_price = filtered[min_by_key(ord)].close]
            /\ pc' = "max_price"
            /\ UNCHANGED <<outcome, at>>
    /\ UNCHANGED <<env_key, op, time_period, today, requests, status, body,
                   time_series, filtered, price>>

\* the maximum taken over the lows
summary_max_price_of_low ==
    /\ pc = "max_price"
    /\ IF DOMAIN filtered = {}
       THEN /\ End("panic", "max_price")
            /\ UNCHANGED summary
       ELSE \E ord \in Orders(DOMAIN filtered) :
              LET m == max_by(Column(filtered, ord, "low"))
              IN IF m = Panicked
                 THEN /\ End("panic", "f64_ord_panic")
                      /\ UNCHANGED summary
                 ELSE /\ summary' = [summary EXCEPT !.max_price = m]
                      /\ pc' = "min_price"
                      /\ UNCHANGED <<outcome, at>>
    /\ UNCHANGED <<env_key, op, time_period, today, requests, status, body,
                   time_series, filtered, price>>

\* lib.rs:183-187
summary_max_price ==
    /\ pc = "max_price"
    /\ IF DOMAIN filtered = {}
       THEN /\ End("panic", "max_price")
            /\ UNCHANGED summary
       ELSE \E ord \in Orders(DOMAIN filtered) :
              LET m == max_by(Column(filtered, ord, "high"))
              IN IF m = Panicked
                 THEN /\ End("panic", "f64_ord_panic")
                      /\ UNCHANGED summary
                 ELSE /\ summary' = [summary EXCEPT !.max_price = m]
                      /\ pc' = "min_price"
                      /\ UNCHANGED <<outcome, at>>
    /\ UNCHANGED <<env_key, op, time_period, today, requests, status, body,
                   time_series, filtered, price>>

\* lib.rs:188-193: the last field; the summary is returned
summary_min_price ==
    /\ pc = "min_price"
    /\ IF DOMAIN filtered = {}
       THEN /\ End("panic", "min_price")
            /\ UNCHANGED summary
       ELSE \E ord \in Orders(DOMAIN filtered) :
              LET m == min_by(Column(filtered, ord, "low"))
              IN IF m = Panicked
                 THEN /\ End("panic", "f64_ord_panic")
                      /\ UNCHANGED summary
                 ELSE /\ summary' = [summary EXCEPT !.min_price = m]
                      /\ End("ok", "summary_for_equity")
    /\ UNCHANGED <<env_key, op, time_period, today, requests, status, body,
                   time_series, filtered, price>>

Next ==
    \/ get_latest_price_for_equity
    \/ summary_for_equity
    \/ get_time_series_daily
    \/ send
    \/ error_for_status
    \/ json
    \/ latest_close
    \/ filter
    \/ summary_latest_price
    \/ summary_earliest_price
    \/ summary_max_price
    \/ summary_min_price

Spec == Init /\ [][Next]_vars

----------------------------------------------------------------------------
(* Properties *)

\* the call is summary_for_equity and the date filter has run
Filtered ==
    /\ op = "summary"
    /\ \/ pc \in {"latest_price", "earliest_price", "max_price", "min_price"}
       \/ /\ pc = "done"
          /\ at \in {"latest_price", "earliest_price", "max_price",
                     "min_price", "f64_ord_panic", "summary_for_equity"}

\* summary_for_equity has ended in its aggregation
Aggregated == Filtered /\ pc = "done"

Comparable(x) == x.k = "num"

AllComparable(ts) ==
    \A d \in DOMAIN ts : Comparable(ts[d].high) /\ Comparable(ts[d].low)

\* C1: when the filter retains at least one entry and every retained high
\* and low is comparable, summary_for_equity returns an EquitySummary whose
\* latest_price is the close of the retained entry of the greatest date,
\* whose earliest_price is the close of the retained entry of the least
\* date, whose max_price is a retained high no retained high exceeds and
\* whose min_price is a retained low no retained low is below.
C1_SummaryFields ==
    (Aggregated /\ DOMAIN filtered # {} /\ AllComparable(filtered)) =>
        /\ outcome = "ok"
        /\ \E d \in DOMAIN filtered :
            /\ \A e \in DOMAIN filtered : e <= d
            /\ summary.latest_price = filtered[d].close
        /\ \E d \in DOMAIN filtered :
            /\ \A e \in DOMAIN filtered : d <= e
            /\ summary.earliest_price = filtered[d].close
        /\ \E d \in DOMAIN filtered : summary.max_price = filtered[d].high
        /\ \A e \in DOMAIN filtered : filtered[e].high.v <= summary.max_price.v
        /\ \E d \in DOMAIN filtered : summary.min_price = filtered[d].low
        /\ \A e \in DOMAIN filtered : summary.min_price.v <= filtered[e].low.v

\* a summary of two retained entries whose greatest high and least low are
\* not those of the latest entry
C1_Witness ==
    /\ Aggregated
    /\ outcome = "ok"
    /\ DOMAIN filtered = {1, 336}
    /\ filtered[1].high = F(3) /\ filtered[336].high = F(2)
    /\ filtered[1].low = F(1) /\ filtered[336].low = F(2)
    /\ filtered[1].close = F(1) /\ filtered[336].close = F(2)
    /\ summary = [latest_price |-> F(2), earliest_price |-> F(1),
                  max_price |-> F(3), min_price |-> F(1)]

\* C2: the filter retains an entry exactly when date + window >= today,
\* with a window of 30 days for Month and 365 days for Year, and retains
\* every entry for AllTime; the retained entries keep their records.
C2_FilterWindow ==
    Filtered =>
        /\ DOMAIN filtered \subseteq DOMAIN time_series
        /\ \A d \in DOMAIN filtered : filtered[d] = time_series[d]
        /\ \A d \in DOMAIN time_series :
            d \in DOMAIN filtered <=>
                \/ time_period = "AllTime"
                \/ time_period = "Month" /\ d + 30 >= today
                \/ time_period = "Year" /\ d + 365 >= today

\* under Month the entry dated today - 30 is retained and the entry dated
\* today - 31 is discarded
C2_Witness ==
    /\ Filtered
    /\ time_period = "Month"
    /\ today - 31 \in DOMAIN time_series
    /\ today - 30 \in DOMAIN time_series
    /\ DOMAIN filtered = {today - 30}

\* C3: on a fetched time series with at least one entry
\* get_latest_price_for_equity returns the close of the entry whose date no
\* other entry's date exceeds.
C3_LatestClose ==
    (op = "latest" /\ pc = "done" /\ at = "latest_close"
        /\ DOMAIN time_series # {}) =>
        /\ outcome = "ok"
        /\ \E d \in DOMAIN time_series :
            /\ \A e \in DOMAIN time_series : e <= d
            /\ price = time_series[d].close

\* the latest price of two entries with different closes
C3_Witness ==
    /\ op = "latest"
    /\ outcome = "ok"
    /\ DOMAIN time_series = {0, 336}
    /\ time_series[0].close = F(2)
    /\ time_series[336].close = F(1)
    /\ price = F(1)

\* C4: when no entry is left after the filter, summary_for_equity returns
\* an error to its caller; it neither panics nor returns a summary.
C4_EmptyIsError ==
    (Aggregated /\ DOMAIN filtered = {}) => outcome = "err"

\* C5: when a retained high or low is NaN, summary_for_equity fails,
\* whatever the number of retained entries: it returns no EquitySummary.
C5_NaNFails ==
    (Aggregated /\ \E d \in DOMAIN filtered :
                      filtered[d].high = NaN \/ filtered[d].low = NaN) =>
        outcome # "ok"

Is2xx(s) == s >= 200 /\ s <= 299

\* C6: a response whose status is not 2xx makes the fetch fail after that
\* one request: the body is at most read, no time series comes out of it
\* and the call ends with an ApiError.
C6_Non2xxFails ==
    (status # 0 /\ ~Is2xx(status)) =>
        /\ requests = 1
        /\ \/ pc \in {"status", "json"}
           \/ pc = "done" /\ outcome = "err"

\* a JSON value no number can be read from
NotANumber(tok) ==
    \/ tok.t = "null"
    \/ tok.t = "str" /\ \E i \in 1..Len(tok.s) : tok.s[i] = "x"

\* C7: a body without the time-series field, or with one field of one
\* record that is no number, makes the fetch end with an error and no time
\* series; a fetch that succeeds has a record for every date of the body,
\* and the string "12345" has become the number 12345.
C7_ParseAllOrNothing ==
    body # NoBody =>
        /\ (\/ ~body.has_ts
            \/ \E d \in DOMAIN body.ts, f \in Fields : NotANumber(body.ts[d][f]))
           => /\ pc = "done"
              /\ outcome = "err"
              /\ at = "json"
              /\ time_series = <<>>
        /\ ~(outcome = "err" /\ at = "json")
           => /\ DOMAIN time_series = DOMAIN body.ts
              /\ \A d \in DOMAIN body.ts, f \in Fields :
                    /\ time_series[d][f] # ParseErr
                    /\ body.ts[d][f] = Str(<<"1", "2", "3", "4", "5">>)
                       => time_series[d][f] = F(12345)

\* a body of two records, one well-formed and one whose split coefficient
\* is no number: the fetch has failed
C7_Witness ==
    /\ outcome = "err"
    /\ at = "json"
    /\ body.has_ts
    /\ DOMAIN body.ts = {0, 1}
    /\ body.ts[0] = BaseDay
    /\ body.ts[1] = [BaseDay EXCEPT !["split_coefficient"] = Str(<<"x">>)]
    /\ time_series = <<>>

\* C8: while VANTAGE_API_KEY is not set no HTTP request is sent, and a call
\* ends in a panic before the request.
C8_NoRequestWithoutKey ==
    ~env_key =>
        /\ requests = 0
        /\ pc \in {"idle", "build", "done"}
        /\ pc = "done" => outcome = "panic" /\ at = "VANTAGE_API_KEY"

\* a call made without the key has ended in the panic, nothing sent
C8_Witness ==
    /\ ~env_key
    /\ op = "summary"
    /\ pc = "done"
    /\ outcome = "panic"
    /\ requests = 0

\* one run of the aggregation over the map ts traversed in the order ord
Aggregate(ts, ord) ==
    IF DOMAIN ts = {}
    THEN [outcome |-> "panic", at |-> "latest_price", summary |-> NoSummary]
    ELSE LET s2 == [NoSummary EXCEPT
                      !.latest_price = ts[max_by_key(ord)].close,
                      !.earliest_price = ts[min_by_key(ord)].close]
             hi == max_by(Column(ts, ord, "high"))
             lo == min_by(Column(ts, ord, "low"))
         IN IF hi = Panicked
            THEN [outcome |-> "panic", at |-> "f64_ord_panic", summary |-> s2]
            ELSE IF lo = Panicked
            THEN [outcome |-> "panic", at |-> "f64_ord_panic",
                  summary |-> [s2 EXCEPT !.max_price = hi]]
            ELSE [outcome |-> "ok", at |-> "summary_for_equity",
                  summary |-> [s2 EXCEPT !.max_price = hi, !.min_price = lo]]

C10_LatestIsGlobal ==
    Filtered =>
        /\ \A d \in DOMAIN filtered, e \in DOMAIN time_series :
            e >= d => e \in DOMAIN filtered
        /\ \A d \in DOMAIN time_series :
            /\ Keep("Month", d, today) => Keep("Year", d, today)
            /\ Keep("Year", d, today) => Keep("AllTime", d, today)
        /\ summary.latest_price # Unset =>
            /\ \A ord \in Orders(DOMAIN time_series) :
                summary.latest_price = time_series[max_by_key(ord)].close
            /\ \A p \in Periods :
                LET r == {d \in DOMAIN time_series : Keep(p, d, today)}
                IN r # {} =>
                    \E d \in r :
                        /\ \A e \in DOMAIN time_series : e <= d
                        /\ summary.latest_price = time_series[d].close

\* a Month summary that has dropped an older entry with another close
C10_Witness ==
    /\ Aggregated
    /\ outcome = "ok"
    /\ time_period = "Month"
    /\ today = 366
    /\ DOMAIN time_series = {1, 336}
    /\ DOMAIN filtered = {336}
    /\ time_series[1].close = F(1)
    /\ summary.latest_price = F(2)

====
